---- MODULE Spec2Model ----
(***************************************************************************)
(* Model of get_pr_infos.py: the retrying fetcher (fetch_with_retry), the  *)
(* patch parser (parse_patch), the enrichment of one PR (fetch_pr_details),*)
(* the collection orchestrator (get_all_prs) with its worker pool, and the *)
(* program entry point that rebuilds processed_ids from the output file.   *)
(*                                                                         *)
(* A pull request is identified by its id.  The hosting API is a fixed     *)
(* listing (a chain of pages of PR ids) plus the set of ids whose          *)
(* merged_at is set.  The listing endpoint serves its summaries per_page   *)
(* at a time, the same summary possibly more than once, and may end with   *)
(* an empty page.  The output file is the sequence of the ids of the       *)
(* records written to it, one per line.                                    *)
(***************************************************************************)
EXTENDS Integers, Sequences, FiniteSets, TLC

\* ---- bounds of the model ------------------------------------------------
MaxListed == 3      \* summaries in the whole listing
MaxPerPage == 2     \* summaries on a page (per_page, 100 in the program)
MaxPrs == 2         \* max_prs is drawn from 1..MaxPrs (2000 in the program),
                    \* and PR ids from 1..MaxPrs
MaxRetries == 3     \* `retries` is drawn from 0..MaxRetries
MaxPatchLen == 4    \* lines of a patch
MaxBodyLen == 4     \* characters of a PR body
MaxFiles == 2       \* files of a PR

\* ---- program constants --------------------------------------------------
DefaultRetries == 3 \* fetch_with_retry(..., retries=3, ...)
MaxWorkers == 5     \* ThreadPoolExecutor(max_workers=5)

Ids == 1..MaxPrs
Statuses == {200, 403, 404, 429, 500}   \* HTTP status of one response

VARIABLES
  \* hosting API and run parameters
  Listing,        \* sequence of pages, a page is a sequence of PR ids
  mergedIds,      \* ids whose summary has merged_at set
  max_prs,
  \* program state
  pc,             \* position of the main thread
  resumed,        \* the program was already run on the output file
  sink,           \* output_file: ids of the appended records, in order
  processed_ids,
  all_prs,        \* ids of the records in all_prs
  url,            \* index of the next listing page, 0 = None
  tasks,          \* the futures the executor holds, in submission order:
                  \*   id: the PR, batch: the page it was submitted for,
                  \*   st: "running", "ok" (returned) or "failed" (raised),
                  \*   fate: "pending", "written", "writefail", "caught"
                  \*         or "dropped" (never yielded)
  futures,        \* indices (in tasks) of the futures of the current batch
  doneFirst,      \* as_completed: futures found finished when it was called
  finishedQ,      \* completion order of the futures of the batch
  err,            \* error fetch_page raised in this run, "none" if none
  \* history of the run
  sinkAtStart,    \* Len(sink) when the run started
  fetches,        \* fetch_page calls made in this run
  prevReached,    \* the previous run ended with max_prs records accounted
                  \* for: processed ids plus records it appended
  completed,      \* the futures that finished before as_completed was
                  \* called and are not yet yielded, in the order in which
                  \* they finished
  exit_status,    \* <<>> while the process runs, <<n>> once it ended
  \* fetch_with_retry, stepped on its own
  fScript,        \* status of the 1st, 2nd, ... response the server gives
  retries,
  attempt,        \* requests made so far
  sleeps,         \* time.sleep(delay) calls made so far
  fState,         \* "calling", "returned", "raised_http", "raised_terminal"
  \* parse_patch, stepped on its own
  patch,          \* the lines of the patch, patch.splitlines()
  pos,            \* lines processed so far
  parser,         \* the locals of parse_patch
  ppc,            \* "scan", "returned" or "raised" (TypeError)
  \* fetch_pr_details and the handling of its future, stepped on their own
  pr_body,        \* pr_data['body'] as the API serves it
  files,          \* the patches of the files the API lists for the PR
  epc,            \* "pr", "issues", "files", "returned", "raised",
                  \* then "appended" or "caught"
  associated_issues,
  issues_details,
  pr_details,     \* <<the record fetch_pr_details returned>>, <<>> before
  calls           \* the fetch_with_retry calls made, with their results

vars == <<Listing, mergedIds, max_prs, pc, resumed, sink, processed_ids, all_prs,
          url, tasks, futures, doneFirst, finishedQ, err, sinkAtStart,
          fetches, prevReached, completed, exit_status,
          fScript, retries, attempt, sleeps, fState,
          patch, pos, parser, ppc,
          pr_body, files, epc, associated_issues, issues_details, pr_details,
          calls>>

orchVars == <<Listing, mergedIds, max_prs, pc, resumed, sink, processed_ids,
              all_prs, url, tasks, futures, doneFirst, finishedQ, err,
              sinkAtStart, fetches, prevReached, completed, exit_status>>

fetchVars == <<fScript, retries, attempt, sleeps, fState>>

patchVars == <<patch, pos, parser, ppc>>

enrichVars == <<pr_body, files, epc, associated_issues, issues_details,
                pr_details, calls>>

\* The variables of the orchestrator other than the file and all_prs.
orchRest == <<Listing, mergedIds, max_prs, pc, resumed, processed_ids, url,
              tasks, futures, doneFirst, finishedQ, err, sinkAtStart, fetches,
              prevReached, completed, exit_status>>

\* ---- helpers --------------------------------------------------------------
RECURSIVE SeqsUpTo(_, _)
SeqsUpTo(S, n) ==
  IF n = 0 THEN {<<>>}
  ELSE LET shorter == SeqsUpTo(S, n - 1)
       IN shorter \cup {Append(s, x) : s \in {t \in shorter : Len(t) = n - 1}, x \in S}

SeqsOfLen(S, n) == {s \in SeqsUpTo(S, n) : Len(s) = n}

Range(s) == {s[i] : i \in 1..Len(s)}

Min(a, b) == IF a < b THEN a ELSE b

\* The place of k among the numbers of S, in increasing order.
Rank(S, k) == Cardinality({j \in S : j <= k})

\* ---- the listing endpoint --------------------------------------------------
\* The chain of pages that serves the summaries `listed`, n per page, with
\* an empty last page if `tail`.
RECURSIVE Chunks(_, _)
Chunks(listed, n) ==
  IF listed = <<>> THEN <<>>
  ELSE <<SubSeq(listed, 1, Min(n, Len(listed)))>>
         \o Chunks(SubSeq(listed, Min(n, Len(listed)) + 1, Len(listed)), n)

PageChain(listed, n, tail) ==
  IF listed = <<>> \/ (tail /\ Len(listed) % n = 0)
  THEN Append(Chunks(listed, n), <<>>)
  ELSE Chunks(listed, n)

\* The program only compares ids, so the PRs are numbered in the order in
\* which the listing first shows them.
FirstSeenOrder(listed) ==
  \A i \in 1..Len(listed) :
    \/ listed[i] = 1
    \/ \E j \in 1..(i - 1) : listed[j] >= listed[i] - 1

Listings ==
  {PageChain(listed, n, tail) :
     listed \in {l \in SeqsUpTo(Ids, MaxListed) : FirstSeenOrder(l)},
     n \in 1..MaxPerPage, tail \in BOOLEAN}

\* ---- fetch_with_retry -----------------------------------------------------
\* Mutant: every HTTP error is retried, not only 403.
AttemptOutcomeRetryAll(status) ==
  IF status = 200 THEN "return" ELSE "retry"

\* What one pass through the body of the for loop does with a response.
AttemptOutcome(status) ==
  IF status = 200 THEN "return"          \* raise_for_status() passes
  ELSE IF status = 403 THEN "retry"      \* sleep(delay), next attempt
  ELSE "raise"                           \* raise e

RECURSIVE FetchFrom(_, _, _)
FetchFrom(script, n, a) ==
  IF a >= n THEN "terminal"
  ELSE LET o == AttemptOutcome(script[a + 1])
       IN IF o = "return" THEN "ok"
          ELSE IF o = "retry" THEN FetchFrom(script, n, a + 1)
          ELSE "http_error"

\* Result of a whole call, given the responses the server gives in order.
FetchWithRetry(script, n) == FetchFrom(script, n, 0)

\* Results a call with the default arguments can have.
FetchResults ==
  {FetchWithRetry(s, DefaultRetries) : s \in SeqsOfLen(Statuses, DefaultRetries)}

FetchInit ==
  /\ retries \in 0..MaxRetries
  /\ fScript \in SeqsOfLen(Statuses, MaxRetries + 1)
  /\ attempt = 0
  /\ sleeps = 0
  /\ fState = "calling"

FetchIdle ==
  /\ retries = 0
  /\ fScript = <<>>
  /\ attempt = 0
  /\ sleeps = 0
  /\ fState = "idle"

\* One iteration of `for attempt in range(retries)`.
FetchAttempt ==
  /\ fState = "calling"
  /\ attempt < retries
  /\ LET o == AttemptOutcome(fScript[attempt + 1])
     IN /\ attempt' = attempt + 1
        /\ sleeps' = IF o = "retry" THEN sleeps + 1 ELSE sleeps
        /\ fState' = IF o = "return" THEN "returned"
                     ELSE IF o = "retry" THEN "calling"
                     ELSE "raised_http"
  /\ UNCHANGED <<fScript, retries>>

\* The loop is over: raise Exception("Failed to fetch data after ...").
FetchExhaust ==
  /\ fState = "calling"
  /\ attempt >= retries
  /\ fState' = "raised_terminal"
  /\ UNCHANGED <<fScript, retries, attempt, sleeps>>

\* ---- parse_patch -------------------------------------------------------------
\* A line is a sequence of characters: "+", "-", "@" and "x" for any other
\* character.  In a line that starts with "@@" and that the pattern
\* @@ -(\d+),?\d* \+(\d+),?\d* @@ matches, the 3rd and 4th elements are the
\* two numbers the pattern captures; a line "@@" alone is one that the
\* pattern does not match.
Headers == {<<"@", "@", 10, 20>>, <<"@", "@", 0, 1>>}

PatchLines ==
  Headers \cup {<<"@", "@">>, <<"x">>, <<"+", "x">>, <<"-", "x">>,
               <<"+", "+", "+">>, <<"-", "-", "-">>}

StartsWith(line, prefix) ==
  Len(line) >= Len(prefix) /\ SubSeq(line, 1, Len(prefix)) = prefix

\* Line 69.
IsHunkLine(line) == StartsWith(line, <<"@", "@">>)

\* Lines 70-71: re.search finds the pattern.
HunkMatch(line) == Len(line) >= 4

\* Line 74.
IsAddition(line) ==
  StartsWith(line, <<"+">>) /\ ~StartsWith(line, <<"+", "+", "+">>)

\* Line 78.
IsDeletion(line) ==
  StartsWith(line, <<"-">>) /\ ~StartsWith(line, <<"-", "-", "-">>)

\* Mutant: the last branch is a plain else.
IsContextElse(line) == TRUE

\* Line 82.
IsContext(line) == ~StartsWith(line, <<"+">>) /\ ~StartsWith(line, <<"-">>)

\* A cursor is <<>> for None and <<n>> for the line number n.
\* Lines 84-87: the cursor is incremented if it is set.
Bump(cursor) == IF cursor = <<>> THEN cursor ELSE <<cursor[1] + 1>>

ParserStart ==
  [additions |-> <<>>, deletions |-> <<>>,
   addition_content |-> <<>>, deletion_content |-> <<>>,
   current_add_line |-> <<>>, current_del_line |-> <<>>,
   raised |-> FALSE]

\* Lines 70-73.
StepHunk(s, line) ==
  IF HunkMatch(line)
  THEN [s EXCEPT !.current_del_line = <<line[3]>>,
                 !.current_add_line = <<line[4]>>]
  ELSE s

\* Lines 75-77; None += 1 raises TypeError, and the lists die with the frame.
StepAddition(s, line) ==
  IF s.current_add_line = <<>> THEN [s EXCEPT !.raised = TRUE]
  ELSE [s EXCEPT !.additions = Append(@, s.current_add_line[1]),
                 !.addition_content = Append(@, Tail(line)),
                 !.current_add_line = <<s.current_add_line[1] + 1>>]

\* Mutant: the content of a deleted line is not recorded.
StepDeletionNoContent(s, line) ==
  IF s.current_del_line = <<>> THEN [s EXCEPT !.raised = TRUE]
  ELSE [s EXCEPT !.deletions = Append(@, s.current_del_line[1]),
                 !.current_del_line = <<s.current_del_line[1] + 1>>]

\* Lines 79-81.
StepDeletion(s, line) ==
  IF s.current_del_line = <<>> THEN [s EXCEPT !.raised = TRUE]
  ELSE [s EXCEPT !.deletions = Append(@, s.current_del_line[1]),
                 !.deletion_content = Append(@, Tail(line)),
                 !.current_del_line = <<s.current_del_line[1] + 1>>]

\* Mutant: a context line moves the addition cursor only.
StepContextAddOnly(s) ==
  [s EXCEPT !.current_add_line = Bump(@)]

\* Lines 84-87.
StepContext(s) ==
  [s EXCEPT !.current_add_line = Bump(@), !.current_del_line = Bump(@)]

\* Lines 69-87: the body of the loop for one line.
ParseStep(s, line) ==
  IF IsHunkLine(line) THEN StepHunk(s, line)
  ELSE IF IsAddition(line) THEN StepAddition(s, line)
  ELSE IF IsDeletion(line) THEN StepDeletion(s, line)
  ELSE IF IsContext(line) THEN StepContext(s)
  ELSE s

\* Lines 89-94.
LineInfo(s) ==
  [additions_lines |-> s.additions, deletions_lines |-> s.deletions,
   addition_content |-> s.addition_content,
   deletion_content |-> s.deletion_content]

PatchInit ==
  /\ patch \in SeqsUpTo(PatchLines, MaxPatchLen)
  /\ pos = 0
  /\ parser = ParserStart
  /\ ppc = "scan"

PatchIdle ==
  /\ patch = <<>>
  /\ pos = 0
  /\ parser = ParserStart
  /\ ppc = "idle"

\* Lines 68-87: one iteration of the loop over the lines.
ParseLine ==
  /\ ppc = "scan"
  /\ pos < Len(patch)
  /\ parser' = ParseStep(parser, patch[pos + 1])
  /\ pos' = pos + 1
  /\ ppc' = IF parser'.raised THEN "raised" ELSE "scan"
  /\ UNCHANGED patch

\* Lines 89-94: the loop is over, the four lists are returned.
ParseReturn ==
  /\ ppc = "scan"
  /\ pos = Len(patch)
  /\ ppc' = "returned"
  /\ UNCHANGED <<patch, pos, parser>>

\* The whole of parse_patch on the lines of a patch.
RECURSIVE ParseFrom(_, _)
ParseFrom(s, lines) ==
  IF lines = <<>> \/ s.raised THEN s
  ELSE ParseFrom(ParseStep(s, Head(lines)), Tail(lines))

ParsePatch(lines) == ParseFrom(ParserStart, lines)

\* ---- extract_linked_issues, fetch_issue_details, fetch_pr_details -----------
\* A body is a sequence of characters: "#", the digit "1", and "x" for any
\* other character; <<>> is the empty body and the absent one (line 41
\* treats them alike).
BodyChars == {"#", "1", "x"}

Digits == {"1"}

\* The longest run of digits at the start of text.
RECURSIVE DigitRun(_)
DigitRun(text) ==
  IF text # <<>> /\ Head(text) \in Digits
  THEN <<Head(text)>> \o DigitRun(Tail(text))
  ELSE <<>>

\* Lines 41-44: re.findall(r'#(\d+)', pr_body), scanning from the left.
RECURSIVE ExtractLinkedIssues(_)
ExtractLinkedIssues(text) ==
  IF Len(text) < 2 THEN <<>>
  ELSE IF Head(text) = "#" /\ text[2] \in Digits
       THEN LET n == DigitRun(Tail(text))
            IN <<n>> \o ExtractLinkedIssues(SubSeq(text, Len(n) + 2, Len(text)))
       ELSE ExtractLinkedIssues(Tail(text))

\* Lines 51-56: the entry built from the issue the API serves for a number.
IssueDetails(number) == [issue |-> number]

\* The patches of the sample files: none, one that parses, and one on which
\* parse_patch raises.
SamplePatches ==
  {<<>>,
   <<<<"@", "@", 10, 20>>, <<"+", "x">>>>,
   <<<<"-", "x">>>>}

\* Line 120: parse_patch is called only on a non-empty patch.
NeedsParse(p) == p # <<>>

\* Lines 118-134: the entry of `changes` for the k-th file.
Change(k) ==
  [filename |-> k,
   line_info |-> IF NeedsParse(files[k])
                 THEN LineInfo(ParsePatch(files[k]))
                 ELSE LineInfo(ParserStart)]

\* parse_patch raises on one of the files.
ParseRaises ==
  \E k \in 1..Len(files) : NeedsParse(files[k]) /\ ParsePatch(files[k]).raised

Call(what, result) == [what |-> what, result |-> result]

EnrichInit ==
  /\ pr_body \in SeqsUpTo(BodyChars, MaxBodyLen)
  /\ files \in SeqsUpTo(SamplePatches, MaxFiles)
  /\ epc = "pr"
  /\ associated_issues = <<>>
  /\ issues_details = <<>>
  /\ pr_details = <<>>
  /\ calls = <<>>

EnrichIdle ==
  /\ pr_body = <<>>
  /\ files = <<>>
  /\ epc = "idle"
  /\ associated_issues = <<>>
  /\ issues_details = <<>>
  /\ pr_details = <<>>
  /\ calls = <<>>

\* Lines 99-103: the PR is fetched and the references are extracted.
PrFetchOk ==
  /\ epc = "pr"
  /\ "ok" \in FetchResults
  /\ calls' = Append(calls, Call("pr", "ok"))
  /\ associated_issues' = ExtractLinkedIssues(pr_body)
  /\ epc' = "issues"
  /\ UNCHANGED <<pr_body, files, issues_details, pr_details, sink, all_prs>>

\* Line 99: fetch_with_retry raises.
PrFetchFails ==
  /\ epc = "pr"
  /\ \E r \in FetchResults \ {"ok"} : calls' = Append(calls, Call("pr", r))
  /\ epc' = "raised"
  /\ UNCHANGED <<pr_body, files, associated_issues, issues_details,
                 pr_details, sink, all_prs>>

\* Lines 107-109: the next referenced issue is fetched and its entry appended.
IssueFetchOk ==
  /\ epc = "issues"
  /\ Len(issues_details) < Len(associated_issues)
  /\ "ok" \in FetchResults
  /\ calls' = Append(calls, Call("issue", "ok"))
  /\ issues_details' =
       Append(issues_details,
              IssueDetails(associated_issues[Len(issues_details) + 1]))
  /\ UNCHANGED <<pr_body, files, epc, associated_issues, pr_details, sink,
                 all_prs>>

\* Mutant: an issue that cannot be fetched is left out.
IssueFetchFailsSkipped ==
  /\ epc = "issues"
  /\ Len(issues_details) < Len(associated_issues)
  /\ \E r \in FetchResults \ {"ok"} : calls' = Append(calls, Call("issue", r))
  /\ associated_issues' =
       [k \in 1..(Len(associated_issues) - 1) |->
          IF k <= Len(issues_details) THEN associated_issues[k]
          ELSE associated_issues[k + 1]]
  /\ UNCHANGED <<pr_body, files, epc, issues_details, pr_details, sink,
                 all_prs>>

\* Line 50, called from line 108: fetch_with_retry raises.
IssueFetchFails ==
  /\ epc = "issues"
  /\ Len(issues_details) < Len(associated_issues)
  /\ \E r \in FetchResults \ {"ok"} : calls' = Append(calls, Call("issue", r))
  /\ epc' = "raised"
  /\ UNCHANGED <<pr_body, files, associated_issues, issues_details,
                 pr_details, sink, all_prs>>

\* Lines 112-143: the files are fetched, an entry of `changes` is built for
\* each of them, and the record is returned, unless parse_patch raises.
FilesFetchOk ==
  /\ epc = "issues"
  /\ Len(issues_details) = Len(associated_issues)
  /\ "ok" \in FetchResults
  /\ calls' = Append(calls, Call("files", "ok"))
  /\ IF ParseRaises
     THEN epc' = "raised" /\ pr_details' = pr_details
     ELSE /\ epc' = "returned"
          /\ pr_details' =
               <<[id |-> 1, body |-> pr_body,
                  associated_issues |-> issues_details,
                  changes |-> [k \in 1..Len(files) |-> Change(k)]]>>
  /\ UNCHANGED <<pr_body, files, associated_issues, issues_details, sink,
                 all_prs>>

\* Line 113: fetch_with_retry raises.
FilesFetchFails ==
  /\ epc = "issues"
  /\ Len(issues_details) = Len(associated_issues)
  /\ \E r \in FetchResults \ {"ok"} : calls' = Append(calls, Call("files", r))
  /\ epc' = "raised"
  /\ UNCHANGED <<pr_body, files, associated_issues, issues_details,
                 pr_details, sink, all_prs>>

\* Lines 163-168 of get_all_prs: the result of the future is appended to
\* all_prs and written to the file as one line.
ResultWritten ==
  /\ epc = "returned"
  /\ all_prs' = Append(all_prs, pr_details[1])
  /\ sink' = Append(sink, pr_details[1])
  /\ epc' = "appended"
  /\ UNCHANGED <<pr_body, files, associated_issues, issues_details,
                 pr_details, calls>>

\* Lines 163-168, 173-174: the write raises and the error is logged.
ResultWriteFails ==
  /\ epc = "returned"
  /\ all_prs' = Append(all_prs, pr_details[1])
  /\ epc' = "caught"
  /\ UNCHANGED <<pr_body, files, associated_issues, issues_details,
                 pr_details, calls, sink>>

\* Lines 163, 173-174: future.result() raises and the error is logged.
ResultRaises ==
  /\ epc = "raised"
  /\ epc' = "caught"
  /\ UNCHANGED <<pr_body, files, associated_issues, issues_details,
                 pr_details, calls, sink, all_prs>>

\* ---- program entry point ---------------------------------------------------
\* processed_ids as rebuilt from the lines of the output file.
ReadProcessedIds(file) == Range(file)

\* ---- get_all_prs ------------------------------------------------------------
\* Mutant: the merged_at test is forgotten.
EligibleAnyState(id) == id \notin processed_ids

\* Line 158: the summary is merged and its id is not yet processed.
Eligible(id) == id \in mergedIds /\ id \notin processed_ids

\* Mutant: the loop goes on to the last page whatever the count.
LoopGuardNoCap == url # 0

\* Line 153: the condition of the while loop.
LoopGuard ==
  url # 0 /\ Len(all_prs) + Cardinality(processed_ids) < max_prs

\* Mutant: the break comes one record late.
BreakCondLate(n) == n + Cardinality(processed_ids) > max_prs

\* Line 171: the condition of the break, with n = len(all_prs).
BreakCond(n) == n + Cardinality(processed_ids) >= max_prs

\* Mutant: a task is submitted for the first eligible summary of a page only.
SubmittedFirstOnly(prs) ==
  IF \E k \in 1..Len(prs) : Eligible(prs[k])
  THEN <<prs[CHOOSE k \in 1..Len(prs) :
               Eligible(prs[k]) /\ \A j \in 1..(k - 1) : ~Eligible(prs[j])]>>
  ELSE <<>>

\* The ids of a page for which a task is submitted, in page order.
RECURSIVE Submitted(_)
Submitted(prs) ==
  IF prs = <<>> THEN <<>>
  ELSE IF Eligible(Head(prs))
       THEN <<Head(prs)>> \o Submitted(Tail(prs))
       ELSE Submitted(Tail(prs))

NewTask(id) ==
  [id |-> id, batch |-> fetches + 1, st |-> "running", fate |-> "pending"]

Pending(i) == tasks[i].fate = "pending"

\* A queued task runs once one of the max_workers threads is free.
HasWorker(i) ==
  Cardinality({j \in 1..(i - 1) : tasks[j].st = "running"}) < MaxWorkers

OrchInit ==
  /\ Listing \in Listings
  /\ mergedIds \in SUBSET Ids
  /\ max_prs \in 1..MaxPrs
  /\ pc = "main"
  /\ resumed = FALSE
  /\ sink = <<>>
  /\ processed_ids = {}
  /\ all_prs = <<>>
  /\ url = 0
  /\ tasks = <<>>
  /\ futures = {}
  /\ doneFirst = {}
  /\ finishedQ = <<>>
  /\ err = "none"
  /\ sinkAtStart = 0
  /\ fetches = 0
  /\ prevReached = FALSE
  /\ completed = <<>>
  /\ exit_status = <<>>

OrchIdle ==
  /\ Listing = <<>>
  /\ mergedIds = {}
  /\ max_prs = 0
  /\ pc = "idle"
  /\ resumed = FALSE
  /\ sink = <<>>
  /\ processed_ids = {}
  /\ all_prs = <<>>
  /\ url = 0
  /\ tasks = <<>>
  /\ futures = {}
  /\ doneFirst = {}
  /\ finishedQ = <<>>
  /\ err = "none"
  /\ sinkAtStart = 0
  /\ fetches = 0
  /\ prevReached = FALSE
  /\ completed = <<>>
  /\ exit_status = <<>>

\* Lines 181-198: read the file, then stop or call get_all_prs.
Main ==
  /\ pc = "main"
  /\ processed_ids' = ReadProcessedIds(sink)
  /\ IF Cardinality(ReadProcessedIds(sink)) >= max_prs
     THEN pc' = "exit" /\ url' = url
     ELSE pc' = "loop" /\ url' = 1
  /\ exit_status' = IF Cardinality(ReadProcessedIds(sink)) >= max_prs
                     THEN <<0>> ELSE exit_status
  /\ UNCHANGED <<Listing, mergedIds, max_prs, resumed, sink, all_prs, tasks,
                 futures, doneFirst, finishedQ, err, sinkAtStart, fetches,
                 prevReached,
                 completed>>

\* Lines 153-159: fetch_page returns; a task is submitted per eligible summary.
FetchPageOk ==
  /\ pc = "loop"
  /\ LoopGuard
  /\ "ok" \in FetchResults
  /\ LET new == Submitted(Listing[url])
     IN /\ tasks' = tasks \o [k \in 1..Len(new) |-> NewTask(new[k])]
        /\ futures' = futures \cup ((Len(tasks) + 1)..(Len(tasks) + Len(new)))
  /\ url' = IF url < Len(Listing) THEN url + 1 ELSE 0
  /\ fetches' = fetches + 1
  /\ pc' = "submitted"
  /\ UNCHANGED <<Listing, mergedIds, max_prs, resumed, sink, processed_ids,
                 all_prs, doneFirst, finishedQ, err, sinkAtStart, prevReached,
                 completed, exit_status>>

\* Mutant: the error of fetch_page is logged and the page is skipped.
FetchPageFailSkipped ==
  /\ pc = "loop"
  /\ LoopGuard
  /\ \E r \in FetchResults \ {"ok"} : err' = r
  /\ fetches' = fetches + 1
  /\ url' = IF url < Len(Listing) THEN url + 1 ELSE 0
  /\ UNCHANGED <<Listing, mergedIds, max_prs, pc, resumed, sink, processed_ids,
                 all_prs, tasks, futures, doneFirst, finishedQ,
                 sinkAtStart, prevReached,
                 completed, exit_status>>

\* Line 154: fetch_with_retry raises; the error leaves get_all_prs.
FetchPageFail ==
  /\ pc = "loop"
  /\ LoopGuard
  /\ \E r \in FetchResults \ {"ok"} : err' = r
  /\ fetches' = fetches + 1
  /\ pc' = "shutdown"
  /\ UNCHANGED <<Listing, mergedIds, max_prs, resumed, sink, processed_ids,
                 all_prs, url, tasks, futures, doneFirst, finishedQ,
                 sinkAtStart, prevReached,
                 completed, exit_status>>

\* Mutant: the loop is left after any page.
LoopExitAnyTime ==
  /\ pc = "loop"
  /\ pc' = "shutdown"
  /\ UNCHANGED <<Listing, mergedIds, max_prs, resumed, sink, processed_ids,
                 all_prs, url, tasks, futures, doneFirst, finishedQ, err,
                 sinkAtStart, fetches, prevReached, completed, exit_status>>

\* Line 153: the loop condition is false.
LoopExit ==
  /\ pc = "loop"
  /\ ~LoopGuard
  /\ pc' = "shutdown"
  /\ UNCHANGED <<Listing, mergedIds, max_prs, resumed, sink, processed_ids,
                 all_prs, url, tasks, futures, doneFirst, finishedQ, err,
                 sinkAtStart, fetches, prevReached,
                 completed, exit_status>>

\* Line 151: leaving the with block waits for every submitted task.
\* Lines 197-201: main prints the count, or catches the exception and prints
\* it; the script then ends, so the exit status is 0 in both cases.
ExecutorExit ==
  /\ pc = "shutdown"
  /\ \A i \in 1..Len(tasks) : tasks[i].st # "running"
  /\ pc' = IF err = "none" THEN "done" ELSE "aborted"
  /\ exit_status' = <<0>>
  /\ UNCHANGED <<Listing, mergedIds, max_prs, resumed, sink, processed_ids,
                 all_prs, url, tasks, futures, doneFirst, finishedQ, err,
                 sinkAtStart, fetches, prevReached,
                 completed>>

\* A worker thread finishes fetch_pr_details: it returns or it raises.
TaskComplete(i) ==
  /\ pc \in {"loop", "submitted", "drain", "shutdown"}
  /\ tasks[i].st = "running"
  /\ HasWorker(i)
  /\ \E r \in {"ok", "failed"} : tasks' = [tasks EXCEPT ![i].st = r]
  /\ finishedQ' = IF pc = "drain" /\ i \in futures
                  THEN Append(finishedQ, i) ELSE finishedQ
  /\ completed' = IF pc = "submitted" /\ i \in futures
                  THEN Append(completed, i) ELSE completed
  /\ UNCHANGED <<Listing, mergedIds, max_prs, pc, resumed, sink, processed_ids,
                 all_prs, url, futures, doneFirst, err, sinkAtStart, fetches,
                 prevReached,
                 exit_status>>

\* Line 161: as_completed(futures) is called.
StartDrain ==
  /\ pc = "submitted"
  /\ doneFirst' = {i \in futures : tasks[i].st # "running"}
  /\ finishedQ' = <<>>
  /\ pc' = "drain"
  /\ UNCHANGED <<Listing, mergedIds, max_prs, resumed, sink, processed_ids,
                 all_prs, url, tasks, futures, err, sinkAtStart, fetches,
                 prevReached,
                 completed, exit_status>>

\* Mutant: the futures are waited for in submission order.
IsNextSubmissionOrder(i) ==
  /\ i \in futures
  /\ Pending(i)
  /\ \A j \in futures : Pending(j) => i <= j

\* The future as_completed yields next: those already finished at the call
\* in the order of a set, then the others as they finish.
IsNext(i) ==
  IF doneFirst # {} THEN i \in doneFirst
  ELSE finishedQ # <<>> /\ i = Head(finishedQ)

Yielded(i) ==
  /\ doneFirst' = doneFirst \ {i}
  /\ finishedQ' = IF doneFirst # {} THEN finishedQ ELSE Tail(finishedQ)
  /\ completed' = SelectSeq(completed, LAMBDA j : j # i)

\* Mutant: no except clause, the error of the task leaves get_all_prs.
DrainFailedUncaught(i) ==
  /\ pc = "drain"
  /\ IsNext(i)
  /\ tasks[i].st = "failed"
  /\ tasks' = [tasks EXCEPT ![i].fate = "caught"]
  /\ pc' = "shutdown"
  /\ UNCHANGED <<Listing, mergedIds, max_prs, resumed, sink, processed_ids,
                 all_prs, url, futures, doneFirst, finishedQ, err,
                 sinkAtStart, fetches, prevReached,
                 completed, exit_status>>

\* Lines 162-163, 173-174: future.result() raises, the error is logged.
DrainFailed(i) ==
  /\ pc = "drain"
  /\ IsNext(i)
  /\ tasks[i].st = "failed"
  /\ Yielded(i)
  /\ tasks' = [tasks EXCEPT ![i].fate = "caught"]
  /\ UNCHANGED <<Listing, mergedIds, max_prs, pc, resumed, sink, processed_ids,
                 all_prs, url, futures, err, sinkAtStart, fetches, prevReached,
                 exit_status>>

\* Lines 163-172, 175: the record is appended to all_prs and written; at the
\* cap the loop over the futures is left and the list of futures is cleared.
DrainWritten(i) ==
  /\ pc = "drain"
  /\ IsNext(i)
  /\ tasks[i].st = "ok"
  /\ all_prs' = Append(all_prs, tasks[i].id)
  /\ sink' = Append(sink, tasks[i].id)
  /\ IF BreakCond(Len(all_prs) + 1)
     THEN /\ tasks' = [j \in 1..Len(tasks) |->
                         IF j = i THEN [tasks[j] EXCEPT !.fate = "written"]
                         ELSE IF j \in futures /\ Pending(j)
                              THEN [tasks[j] EXCEPT !.fate = "dropped"]
                              ELSE tasks[j]]
          /\ futures' = {}
          /\ doneFirst' = {}
          /\ finishedQ' = <<>>
          /\ completed' = <<>>
          /\ pc' = "loop"
     ELSE /\ tasks' = [tasks EXCEPT ![i].fate = "written"]
          /\ Yielded(i)
          /\ UNCHANGED <<futures, pc>>
  /\ UNCHANGED <<Listing, mergedIds, max_prs, resumed, processed_ids, url, err,
                 sinkAtStart, fetches, prevReached,
                 exit_status>>

\* Lines 163-168, 173-174: open() or write() raises after the append to
\* all_prs; the except clause logs the error and the loop goes on.
DrainWriteFails(i) ==
  /\ pc = "drain"
  /\ IsNext(i)
  /\ tasks[i].st = "ok"
  /\ all_prs' = Append(all_prs, tasks[i].id)
  /\ tasks' = [tasks EXCEPT ![i].fate = "writefail"]
  /\ Yielded(i)
  /\ UNCHANGED <<Listing, mergedIds, max_prs, pc, resumed, sink, processed_ids,
                 url, futures, err, sinkAtStart, fetches, prevReached,
                 exit_status>>

\* Lines 161, 175: every future was yielded; futures = [] drops them.
DrainEnd ==
  /\ pc = "drain"
  /\ \A i \in futures : ~Pending(i)
  /\ futures' = {}
  /\ tasks' = <<>>
  /\ pc' = "loop"
  /\ completed' = <<>>
  /\ UNCHANGED <<Listing, mergedIds, max_prs, resumed, sink, processed_ids,
                 all_prs, url, doneFirst, finishedQ, err, sinkAtStart,
                 fetches, prevReached,
                 exit_status>>

\* The program is started again on the file the last run left.
Rerun ==
  /\ pc \in {"done", "aborted", "exit"}
  /\ resumed' = TRUE
  /\ pc' = "main"
  /\ all_prs' = <<>>
  /\ url' = 0
  /\ tasks' = <<>>
  /\ futures' = {}
  /\ doneFirst' = {}
  /\ finishedQ' = <<>>
  /\ err' = "none"
  /\ sinkAtStart' = Len(sink)
  /\ fetches' = 0
  /\ prevReached' =
       \/ pc = "exit"
       \/ /\ pc = "done"
          /\ Cardinality(processed_ids) + Len(sink) - sinkAtStart >= max_prs
  /\ completed' = <<>>
  /\ exit_status' = <<>>
  /\ UNCHANGED <<Listing, mergedIds, max_prs, sink, processed_ids>>

\* ---- specifications ---------------------------------------------------------
Init == OrchInit /\ FetchIdle /\ PatchIdle /\ EnrichIdle

Next ==
  \/ Main /\ UNCHANGED <<fetchVars, patchVars, enrichVars>>
  \/ FetchPageOk /\ UNCHANGED <<fetchVars, patchVars, enrichVars>>
  \/ FetchPageFail /\ UNCHANGED <<fetchVars, patchVars, enrichVars>>
  \/ LoopExit /\ UNCHANGED <<fetchVars, patchVars, enrichVars>>
  \/ ExecutorExit /\ UNCHANGED <<fetchVars, patchVars, enrichVars>>
  \/ StartDrain /\ UNCHANGED <<fetchVars, patchVars, enrichVars>>
  \/ DrainEnd /\ UNCHANGED <<fetchVars, patchVars, enrichVars>>
  \/ Rerun /\ UNCHANGED <<fetchVars, patchVars, enrichVars>>
  \/ \E i \in 1..Len(tasks) :
       \/ TaskComplete(i) /\ UNCHANGED <<fetchVars, patchVars, enrichVars>>
       \/ DrainFailed(i) /\ UNCHANGED <<fetchVars, patchVars, enrichVars>>
       \/ DrainWritten(i) /\ UNCHANGED <<fetchVars, patchVars, enrichVars>>
       \/ DrainWriteFails(i) /\ UNCHANGED <<fetchVars, patchVars, enrichVars>>

Spec == Init /\ [][Next]_vars

InitFetch == OrchIdle /\ FetchInit /\ PatchIdle /\ EnrichIdle

NextFetch ==
  \/ FetchAttempt /\ UNCHANGED <<orchVars, patchVars, enrichVars>>
  \/ FetchExhaust /\ UNCHANGED <<orchVars, patchVars, enrichVars>>

SpecFetch == InitFetch /\ [][NextFetch]_vars

InitEnrich == OrchIdle /\ FetchIdle /\ PatchIdle /\ EnrichInit

NextEnrich ==
  \/ PrFetchOk /\ UNCHANGED <<orchRest, fetchVars, patchVars>>
  \/ PrFetchFails /\ UNCHANGED <<orchRest, fetchVars, patchVars>>
  \/ IssueFetchOk /\ UNCHANGED <<orchRest, fetchVars, patchVars>>
  \/ IssueFetchFails /\ UNCHANGED <<orchRest, fetchVars, patchVars>>
  \/ FilesFetchOk /\ UNCHANGED <<orchRest, fetchVars, patchVars>>
  \/ FilesFetchFails /\ UNCHANGED <<orchRest, fetchVars, patchVars>>
  \/ ResultWritten /\ UNCHANGED <<orchRest, fetchVars, patchVars>>
  \/ ResultWriteFails /\ UNCHANGED <<orchRest, fetchVars, patchVars>>
  \/ ResultRaises /\ UNCHANGED <<orchRest, fetchVars, patchVars>>

SpecEnrich == InitEnrich /\ [][NextEnrich]_vars

\* The runs in which every enrichment task and every write to the output
\* file succeeds.
NextOk ==
  \/ Main /\ UNCHANGED <<fetchVars, patchVars, enrichVars>>
  \/ FetchPageOk /\ UNCHANGED <<fetchVars, patchVars, enrichVars>>
  \/ FetchPageFail /\ UNCHANGED <<fetchVars, patchVars, enrichVars>>
  \/ LoopExit /\ UNCHANGED <<fetchVars, patchVars, enrichVars>>
  \/ ExecutorExit /\ UNCHANGED <<fetchVars, patchVars, enrichVars>>
  \/ StartDrain /\ UNCHANGED <<fetchVars, patchVars, enrichVars>>
  \/ DrainEnd /\ UNCHANGED <<fetchVars, patchVars, enrichVars>>
  \/ Rerun /\ UNCHANGED <<fetchVars, patchVars, enrichVars>>
  \/ \E i \in 1..Len(tasks) :
       \/ TaskComplete(i) /\ tasks'[i].st = "ok" /\ UNCHANGED <<fetchVars, patchVars, enrichVars>>
       \/ DrainWritten(i) /\ UNCHANGED <<fetchVars, patchVars, enrichVars>>

SpecOk == Init /\ [][NextOk]_vars

InitPatch == OrchIdle /\ FetchIdle /\ PatchInit /\ EnrichIdle

NextPatch ==
  \/ ParseLine /\ UNCHANGED <<orchVars, fetchVars, enrichVars>>
  \/ ParseReturn /\ UNCHANGED <<orchVars, fetchVars, enrichVars>>

SpecPatch == InitPatch /\ [][NextPatch]_vars

\* ---- properties of get_all_prs ---------------------------------------------
RunStates == {"loop", "submitted", "drain", "shutdown", "done", "aborted"}

InRun == pc \in RunStates

\* Records appended to the file in this run.
NewRecords == SubSeq(sink, sinkAtStart + 1, Len(sink))

Appended == Len(sink) - sinkAtStart

TaskIdx == 1..Len(tasks)

\* C1: in every state of a run and after it, the number of processed ids at
\* the start plus the number of records appended in the run is at most
\* max_prs.
RunningCountInv ==
  InRun => Cardinality(processed_ids) + Appended <= max_prs

\* A resumed run stopped at the cap and left a finished task unappended.
RunningCountWitness ==
  /\ pc = "done"
  /\ processed_ids # {}
  /\ Appended >= 1
  /\ Cardinality(processed_ids) + Appended = max_prs
  /\ \E i \in TaskIdx : tasks[i].st = "ok" /\ tasks[i].fate = "dropped"

\* C2: in a run no id is appended twice and no id of processed_ids is
\* appended.
AppendedOnce ==
  InRun =>
    /\ \A k, l \in 1..Len(NewRecords) :
         k # l => NewRecords[k] # NewRecords[l]
    /\ \A k \in 1..Len(NewRecords) : NewRecords[k] \notin processed_ids

\* C3: a task is submitted only for a summary that is merged and whose id is
\* not in processed_ids, so no record of an unmerged PR is appended.
EligibilityInv ==
  /\ \A i \in TaskIdx :
       tasks[i].id \in mergedIds /\ tasks[i].id \notin processed_ids
  /\ \A k \in 1..Len(NewRecords) : NewRecords[k] \in mergedIds

\* A page with a merged and an unmerged PR was fetched and a record appended.
EligibilityWitness ==
  /\ pc = "done"
  /\ Appended >= 1
  /\ \E id \in Range(Listing[1]) : id \notin mergedIds
  /\ \E id \in Range(Listing[1]) : id \in mergedIds

\* The merged PRs of the whole listing.
MergedListed ==
  {id \in mergedIds : \E p \in 1..Len(Listing) : id \in Range(Listing[p])}

\* C4: a run that follows a run which reached max_prs, or which left every
\* merged PR of the listing in the file, appends nothing.
SecondRunAppendsNothing ==
  (resumed /\ (prevReached
                \/ MergedListed \subseteq Range(SubSeq(sink, 1, sinkAtStart))))
    => Appended = 0

\* The number of records in the file has reached the cap.
AtCap == InRun /\ Cardinality(processed_ids) + Appended >= max_prs

\* C5 as stated: when get_all_prs returns, every submitted task that
\* finished successfully has had its record appended (or its write failed).
InFlightAppended ==
  pc = "done" =>
    \A i \in TaskIdx :
      tasks[i].st = "ok" => tasks[i].fate \in {"written", "writefail"}

\* C5 as amended: once processed ids plus appended records reach max_prs, no
\* page is fetched, no task submitted and no record appended any more in the
\* run; the futures not yet yielded are abandoned, and get_all_prs returns
\* only after they have finished.
StopAtCap ==
  /\ [][(AtCap /\ pc' \in RunStates) =>
          /\ sink' = sink
          /\ fetches' = fetches
          /\ Len(tasks') = Len(tasks)
          /\ \A i \in TaskIdx :
               Pending(i) => tasks'[i].fate \in {"pending", "dropped"}]_vars
  /\ [](pc \in {"done", "aborted"} =>
          \A i \in TaskIdx : tasks[i].st # "running")

\* The cap was reached on the first page of two with a finished task left.
StopAtCapWitness ==
  /\ pc = "done"
  /\ AtCap
  /\ url # 0
  /\ \E i \in TaskIdx : tasks[i].st = "ok" /\ tasks[i].fate = "dropped"

\* C6: a task that raised has nothing appended or counted: taking its result
\* changes neither the file nor all_prs and leaves the loop over the futures
\* running; processed_ids is not changed by the run; and the run only ends at
\* the cap, at the end of the listing or on an error of a listing fetch, in
\* the last two cases with the result of every successful task taken and
\* handed to the file.
FailureIsolation ==
  /\ [](InRun =>
          /\ \A i \in TaskIdx :
               tasks[i].st = "failed" =>
                 tasks[i].fate \in {"pending", "caught", "dropped"}
          /\ pc \in {"done", "aborted"} =>
               \/ BreakCond(Len(all_prs))
               \/ /\ url = 0 \/ (err # "none" /\ fetches = url)
                  /\ \A i \in TaskIdx :
                       tasks[i].st = "ok" =>
                         tasks[i].fate \in {"written", "writefail"})
  /\ [][\A i \in TaskIdx :
          (/\ InRun
           /\ i \in DOMAIN tasks'
           /\ tasks[i].st = "failed"
           /\ Pending(i)
           /\ tasks'[i].fate \notin {"pending", "dropped"})
            => /\ sink' = sink
               /\ all_prs' = all_prs
               /\ pc' = "drain"
               /\ err' = err]_vars
  /\ [][(InRun /\ pc' \in RunStates) => processed_ids' = processed_ids]_vars

\* A task of a batch raised, another of the same batch was appended without
\* reaching the cap, and the listing has a further page.
FailureIsolationWitness ==
  /\ pc = "drain"
  /\ url # 0
  /\ \E i, j \in TaskIdx :
       /\ tasks[i].batch = tasks[j].batch
       /\ tasks[i].fate = "caught"
       /\ tasks[j].fate = "written"

\* C7: a failed write ends the run with the error, and all_prs counts only
\* records that are in the file.
SinkFailureFatal ==
  InRun =>
    /\ (\E i \in TaskIdx : tasks[i].fate = "writefail") =>
         pc \in {"shutdown", "aborted"}
    /\ Len(all_prs) = Appended

\* C8: after a listing fetch has raised, the run fetches no page, submits no
\* task and appends no record, it is over, and the file only ever grows at
\* its end.
ListingErrorAborts ==
  /\ [][(InRun /\ err # "none" /\ pc' \in RunStates) =>
          /\ sink' = sink
          /\ fetches' = fetches
          /\ Len(tasks') = Len(tasks)
          /\ all_prs' = all_prs]_vars
  /\ [](err # "none" => pc \in {"shutdown", "aborted"})
  /\ [][Len(sink') >= Len(sink) /\ SubSeq(sink', 1, Len(sink)) = sink]_vars

\* The fetch of the second page raised after a record of the first page was
\* appended.
ListingErrorWitness ==
  /\ pc = "aborted"
  /\ fetches = 2
  /\ Appended >= 1

\* ---- properties of fetch_with_retry -------------------------------------
RateLimited(status) == status \in {429, 403}

\* C9: k < retries rate-limit responses followed by a success: the call
\* returns after exactly k + 1 attempts and k sleeps.
RetryThenSuccess ==
  \A k \in 0..(retries - 1) :
    (/\ fState \notin {"calling", "idle"}
     /\ \A j \in 1..k : RateLimited(fScript[j])
     /\ fScript[k + 1] = 200)
      => (fState = "returned" /\ attempt = k + 1 /\ sleeps = k)

\* C10: only rate-limit responses: the call makes exactly `retries` attempts,
\* never more, and raises the terminal error.
RetryExhaustion ==
  /\ attempt <= retries
  /\ (/\ fState \notin {"calling", "idle"}
      /\ \A j \in 1..Len(fScript) : RateLimited(fScript[j]))
       => (fState = "raised_terminal" /\ attempt = retries)

\* C11: an attempt that gets an HTTP error other than a rate-limit response
\* raises it at once: it is the last attempt, and no sleep follows it (the
\* only sleeps are those of the retried attempts before it).
NoRetryOnOtherErrors ==
  \A k \in 1..retries :
    (attempt >= k /\ fScript[k] \notin {200, 403, 429})
      => (fState = "raised_http" /\ attempt = k /\ sleeps = k - 1)

\* A 500 came after at least one retried attempt and was raised.
NoRetryWitness ==
  /\ fState = "raised_http"
  /\ attempt >= 2
  /\ fScript[attempt] = 500

\* C16: the process ends with a non-zero status when get_all_prs raised, and
\* with status zero otherwise.
ExitStatusReflectsError ==
  /\ pc = "aborted" => (exit_status # <<>> /\ exit_status[1] # 0)
  /\ pc \in {"done", "exit"} => exit_status = <<0>>

\* The position of future i in the sequence q, 0 if it is not in q.
PosIn(q, i) ==
  IF \E k \in 1..Len(q) : q[k] = i
  THEN CHOOSE k \in 1..Len(q) : q[k] = i
  ELSE 0

\* Future j finished before future i, both not yet yielded.
FinishedBefore(j, i) ==
  \/ PosIn(completed, j) > 0 /\ PosIn(completed, i) > PosIn(completed, j)
  \/ PosIn(completed, j) > 0 /\ PosIn(completed, i) = 0
  \/ PosIn(finishedQ, j) > 0 /\ PosIn(finishedQ, i) > PosIn(finishedQ, j)

\* The result of future i is taken in this step.
Taken(i) ==
  /\ i \in futures
  /\ Pending(i)
  /\ tasks'[i].fate \in {"written", "writefail", "caught"}

\* C18 as stated: a record is appended in the order of completion, also among
\* the tasks that had completed before the drain of the batch started: when
\* the record of a task is appended below the cap, no task of the batch that
\* completed successfully before it still waits for its record to be appended.
CompletionOrderAppend ==
  [][\A i \in TaskIdx :
       (Taken(i) /\ sink' # sink /\ pc' = "drain")
         => ~\E j \in futures :
               /\ j # i
               /\ Pending(j)
               /\ tasks[j].st = "ok"
               /\ FinishedBefore(j, i)]_vars

\* C18: a result is taken only from a task that has completed; the tasks
\* that had completed when as_completed was called come first, and the tasks
\* that complete after the call follow in the order in which they complete.
CompletionOrderDrain ==
  [][\A i \in TaskIdx :
       Taken(i) =>
         /\ tasks[i].st # "running"
         /\ PosIn(completed, i) = 0 =>
              /\ completed = <<>>
              /\ ~\E j \in futures : Pending(j) /\ FinishedBefore(j, i)]_vars

\* Two tasks finished during the drain; the record of the first of them is
\* in the file and the second still waits.
CompletionOrderWitness ==
  /\ pc = "drain"
  /\ completed = <<>>
  /\ Len(finishedQ) >= 1
  /\ Pending(Head(finishedQ))
  /\ \E i \in futures : tasks[i].fate = "written" /\ i \notin doneFirst
  /\ doneFirst = {}

\* The summaries of the whole listing that are merged and not in
\* processed_ids, each occurrence counted.
EligibleCount ==
  Cardinality({pk \in (1..Len(Listing)) \X (1..MaxListed) :
                 /\ pk[2] <= Len(Listing[pk[1]])
                 /\ Listing[pk[1]][pk[2]] \in mergedIds
                 /\ Listing[pk[1]][pk[2]] \notin processed_ids})

\* C19: when a run in which every task and every write succeeds returns, it
\* has appended min(eligible summaries of the listing, max_prs minus the
\* number of processed ids) records.
CompleteRun ==
  pc = "done" =>
    Appended = Min(EligibleCount, max_prs - Cardinality(processed_ids))

\* One page with a merged PR and an unmerged one, below the cap: the run
\* returned with the record of the merged PR only.
CompleteRunWitness ==
  /\ pc = "done"
  /\ ~resumed
  /\ Len(Listing) = 1
  /\ \E k \in 1..Len(Listing[1]) : Listing[1][k] \notin mergedIds
  /\ EligibleCount = 1
  /\ max_prs = 2
  /\ NewRecords = <<1>>

Running == {"loop", "submitted", "drain", "shutdown"}

\* Listing pages not yet fetched.
PagesLeft == IF url = 0 THEN 0 ELSE Len(Listing) - url + 1

\* The place of pc in the cycle of one page: a page is fetched, its tasks are
\* submitted, drained, and the loop condition is tested again.
Phase ==
  CASE pc = "submitted" -> 4
    [] pc = "drain" -> 3
    [] pc = "loop" -> 2
    [] pc = "shutdown" -> 1
    [] OTHER -> 0

Unfinished ==
  Cardinality({i \in TaskIdx : tasks[i].st = "running"})
    + Cardinality({i \in futures : Pending(i)})

\* What is left to do in the run, ordered by pages, then phase, then tasks.
Variant ==
  (PagesLeft * 5 + Phase) * (2 * MaxListed + 1) + Unfinished

\* A step of a run that has not ended stays in the run and lowers the variant.
RunProgress ==
  pc \in Running =>
    /\ pc' \in Running \cup {"done", "aborted"}
    /\ Variant' < Variant

\* C20: a run of get_all_prs returns or raises: as long as it has done
\* neither a step is possible (a request that gets its response, a thread
\* that runs), every step brings it closer to its end, and when it has
\* returned the count has reached max_prs or every page was fetched.
RunTerminates ==
  /\ [](pc \in Running => ENABLED Next)
  /\ [](Variant >= 0)
  /\ [][RunProgress]_vars
  /\ [](pc = "done" =>
          \/ Len(all_prs) + Cardinality(processed_ids) >= max_prs
          \/ fetches = Len(Listing))

\* The run fetched every page of a listing that ends with an empty page,
\* appended a record and returned below the cap.
RunTerminatesWitness ==
  /\ pc = "done"
  /\ Len(Listing) >= 2
  /\ Listing[Len(Listing)] = <<>>
  /\ fetches = Len(Listing)
  /\ Appended >= 1
  /\ Len(all_prs) + Cardinality(processed_ids) < max_prs

\* The positions of the body where a reference '#<digits>' starts.
RefStarts ==
  {p \in 1..(Len(pr_body) - 1) : pr_body[p] = "#" /\ pr_body[p + 1] \in Digits}

\* The digits of the reference that starts at p.
RefAt(p) ==
  LET last == CHOOSE q \in (p + 1)..Len(pr_body) :
                /\ \A k \in (p + 1)..q : pr_body[k] \in Digits
                /\ (q = Len(pr_body) \/ pr_body[q + 1] \notin Digits)
  IN SubSeq(pr_body, p + 1, last)

FailedCall == \E k \in 1..Len(calls) : calls[k].result # "ok"

\* C17: a record is in the file only if the fetch of the PR, of every issue
\* its body refers to and of its files all succeeded, in that order; the
\* record has one entry of associated_issues per reference, in the order of
\* the body with repetitions, and one entry of changes per file.  After a
\* failed fetch nothing is appended for the PR.
FullyEnriched ==
  /\ FailedCall => (sink = <<>> /\ all_prs = <<>> /\ epc \in {"raised", "caught"})
  /\ sink # <<>> =>
       /\ epc = "appended"
       /\ sink = pr_details
       /\ [k \in 1..Len(calls) |-> calls[k].what]
            = <<"pr">> \o [k \in 1..Cardinality(RefStarts) |-> "issue"]
                \o <<"files">>
       /\ Len(sink[1].associated_issues) = Cardinality(RefStarts)
       /\ \A p \in RefStarts :
            sink[1].associated_issues[Rank(RefStarts, p)].issue = RefAt(p)
       /\ Len(sink[1].changes) = Len(files)
       /\ \A k \in 1..Len(files) : sink[1].changes[k].filename = k

\* A record with the same issue referred to twice and two files was appended.
FullyEnrichedWitness ==
  /\ epc = "appended"
  /\ Len(sink[1].associated_issues) = 2
  /\ sink[1].associated_issues[1] = sink[1].associated_issues[2]
  /\ Len(sink[1].changes) = 2

\* ---- parse_patch: kinds of lines, as the unified diff format names them ----
HeaderLine(line) == Len(line) = 4 /\ line[1] = "@" /\ line[2] = "@"

MalformedHeader(line) == Len(line) = 2 /\ line[1] = "@" /\ line[2] = "@"

MarkerLine(line) == line \in {<<"+", "+", "+">>, <<"-", "-", "-">>}

AddLine(line) == Len(line) >= 1 /\ line[1] = "+" /\ ~MarkerLine(line)

DelLine(line) == Len(line) >= 1 /\ line[1] = "-" /\ ~MarkerLine(line)

CtxLine(line) == Len(line) >= 1 /\ line[1] \notin {"+", "-", "@"}

WellFormedPatch ==
  /\ patch # <<>>
  /\ HeaderLine(patch[1])
  /\ \A k \in 1..Len(patch) :
       HeaderLine(patch[k]) \/ CtxLine(patch[k]) \/ AddLine(patch[k]) \/ DelLine(patch[k])

\* The most recent hunk header before line k.
LastHeader(k) ==
  CHOOSE h \in 1..(k - 1) :
    HeaderLine(patch[h]) /\ \A j \in (h + 1)..(k - 1) : ~HeaderLine(patch[j])

AddIdx == {k \in 1..Len(patch) : AddLine(patch[k])}

DelIdx == {k \in 1..Len(patch) : DelLine(patch[k])}

ExpectedAdd(k) ==
  patch[LastHeader(k)][4]
    + Cardinality({j \in (LastHeader(k) + 1)..(k - 1) :
                     CtxLine(patch[j]) \/ AddLine(patch[j])})

ExpectedDel(k) ==
  patch[LastHeader(k)][3]
    + Cardinality({j \in (LastHeader(k) + 1)..(k - 1) :
                     CtxLine(patch[j]) \/ DelLine(patch[j])})

\* C12: on a patch of well-formed hunk headers, context, addition and
\* deletion lines that starts with a hunk header, parse_patch returns, the
\* i-th entry of additions_lines is addStart of the most recent header plus
\* the context and addition lines since it, the i-th entry of deletions_lines
\* is delStart plus the context and deletion lines since it, and the content
\* lists hold the same lines without their leading sign.
CursorArithmetic ==
  (ppc \in {"returned", "raised"} /\ WellFormedPatch) =>
    /\ ppc = "returned"
    /\ Len(LineInfo(parser).additions_lines) = Cardinality(AddIdx)
    /\ Len(LineInfo(parser).addition_content) = Cardinality(AddIdx)
    /\ Len(LineInfo(parser).deletions_lines) = Cardinality(DelIdx)
    /\ Len(LineInfo(parser).deletion_content) = Cardinality(DelIdx)
    /\ \A k \in AddIdx :
         /\ LineInfo(parser).additions_lines[Rank(AddIdx, k)] = ExpectedAdd(k)
         /\ <<"+">> \o LineInfo(parser).addition_content[Rank(AddIdx, k)] = patch[k]
    /\ \A k \in DelIdx :
         /\ LineInfo(parser).deletions_lines[Rank(DelIdx, k)] = ExpectedDel(k)
         /\ <<"-">> \o LineInfo(parser).deletion_content[Rank(DelIdx, k)] = patch[k]

\* '@@ -10,3 +20,4 @@', context, '+foo', '-bar' gave [21] and [11].
CursorArithmeticWitness ==
  /\ ppc = "returned"
  /\ patch = <<<<"@", "@", 10, 20>>, <<"x">>, <<"+", "x">>, <<"-", "x">>>>
  /\ parser.additions = <<21>>
  /\ parser.deletions = <<11>>

\* C13: on a patch with no hunk header line parse_patch returns, with the
\* four lists empty, whatever other lines the patch holds.
NoHeaderAllEmpty ==
  (/\ ppc \in {"returned", "raised"}
   /\ \A k \in 1..Len(patch) : ~HeaderLine(patch[k]))
    => /\ ppc = "returned"
       /\ LineInfo(parser) = [additions_lines |-> <<>>, deletions_lines |-> <<>>,
                              addition_content |-> <<>>, deletion_content |-> <<>>]

\* C14: the line-number list and the content list of each kind have the same
\* length after every processed line and at the return.
LengthInv ==
  /\ Len(parser.additions) = Len(parser.addition_content)
  /\ Len(parser.deletions) = Len(parser.deletion_content)

\* In the middle of a patch, with an addition and a deletion recorded.
LengthWitness ==
  /\ ppc = "scan"
  /\ pos < Len(patch)
  /\ Len(parser.additions) >= 1
  /\ Len(parser.deletions) >= 1

Bumped(s) ==
  [s EXCEPT !.current_add_line = IF @ = <<>> THEN <<>> ELSE <<@[1] + 1>>,
            !.current_del_line = IF @ = <<>> THEN <<>> ELSE <<@[1] + 1>>]

LineStep == ppc = "scan" /\ pos' = pos + 1

\* C15 as stated: every line that is no hunk header line, no addition and no
\* deletion, the '+++' and '---' lines included, records nothing and
\* increments both cursors if set; a malformed hunk header changes nothing.
OtherLinesAreContext ==
  [][LineStep =>
       LET line == patch[pos + 1]
       IN /\ (CtxLine(line) \/ MarkerLine(line)) => parser' = Bumped(parser)
          /\ MalformedHeader(line) => parser' = parser]_vars

\* C15: a line that begins with none of '@@', '+', '-' records nothing and
\* increments both cursors if set; a line that begins with '+++' or '---'
\* and a malformed hunk header change nothing.
ContextRule ==
  [][LineStep =>
       LET line == patch[pos + 1]
       IN /\ CtxLine(line) => parser' = Bumped(parser)
          /\ MarkerLine(line) => parser' = parser
          /\ MalformedHeader(line) => parser' = parser]_vars

\* A '+++' line was processed after a hunk header had set the cursors.
ContextRuleWitness ==
  /\ pos >= 2
  /\ patch[pos] = <<"+", "+", "+">>
  /\ \E k \in 1..(pos - 1) : HeaderLine(patch[k])
  /\ parser.current_add_line # <<>>

====
